---- MODULE Spec2Model ----
(***************************************************************************)
(* Model of the pylint rule PLE1141 `dict-iter-missing-items`              *)
(* (crates/ruff_linter/src/rules/pylint/rules/dict_iter_missing_items.rs). *)
(*                                                                         *)
(* The rule is one function, dict_iter_missing_items(checker, target,      *)
(* iter), that the checker calls for every `for` loop.  It reads the       *)
(* semantic model and pushes at most one diagnostic into                   *)
(* checker.diagnostics.                                                    *)
(***************************************************************************)
EXTENDS Integers, Sequences, FiniteSets, TLC

VARIABLES
    semantic,     \* the semantic model: identifier -> answers of only_binding / is_dict / statement
    diagnostics,  \* checker.diagnostics, the sink (a Vec<Diagnostic>)
    visited,      \* the loops the rule has been invoked on, as [slot, target, text]
    call,         \* the latest invocation: its arguments and the sink it started from
    pass          \* 1 = linting the original source, 2 = re-linting after the fix was applied

vars == <<semantic, diagnostics, visited, call, pass>>

----------------------------------------------------------------------------
(* Bounds *)

MaxElts == 3    \* largest number of elements of a tuple / list expression
MaxKeys == 2    \* largest number of entries of a dict literal
MaxLoops == 2   \* number of `for` loops (source positions) in the file

----------------------------------------------------------------------------
(* Syntax tree *)

\* Source text is a sequence of characters.
Names == { <<"d">>, <<"e", "f">> }

IterTexts ==
    Names \cup
    { <<"f", "(", ")">>,                                   \* call
      <<"d", ".", "a">>,                                   \* attribute access
      <<"{", "}">>,                                        \* dict literal
      <<"[", "d", "]">>,                                   \* list literal
      <<"[", "x", " ", "f", "o", "r", " ", "x", " ", "i", "n", " ", "d", "]">> }  \* comprehension

IdentChars == { "d", "e", "f", "a", "x", "i", "t", "m", "s", "o", "r", "n" }

IsIdentifier(text) ==
    /\ Len(text) > 0
    /\ \A i \in 1..Len(text) : text[i] \in IdentChars

RECURSIVE IdentPrefixLen(_, _)
IdentPrefixLen(text, i) ==
    IF i > Len(text) \/ text[i] \notin IdentChars
    THEN i - 1
    ELSE IdentPrefixLen(text, i + 1)

HasChar(text, c) == \E i \in 1..Len(text) : text[i] = c

TextRange(start, end) == [start |-> start, end |-> end]

\* The expression node the parser produces for `text` found at offset `start`.
\* `id` is ExprName.id; `base` is the innermost Name under an attribute / call chain.
ParseExpr(text, start) ==
    LET kind ==
            IF IsIdentifier(text) THEN "Name"
            ELSE IF Len(text) > 0 /\ text[1] = "{" THEN "Dict"
            ELSE IF Len(text) > 0 /\ text[1] = "[" THEN
                (IF HasChar(text, " ") THEN "ListComp" ELSE "List")
            ELSE IF Len(text) > 0 /\ text[Len(text)] = ")" THEN "Call"
            ELSE IF HasChar(text, ".") THEN "Attribute"
            ELSE "Other"
    IN  [ kind  |-> kind,
          id    |-> IF kind = "Name" THEN text ELSE << >>,
          base  |-> IF kind \in {"Call", "Attribute"}
                    THEN SubSeq(text, 1, IdentPrefixLen(text, 1)) ELSE << >>,
          range |-> TextRange(start, start + Len(text)) ]

\* Loop targets: `x`, `*x`, `[a, ...]`, `(a, ...)`.
TargetExpr(kind, n) == [kind |-> kind, elts |-> n]

Targets ==
    { TargetExpr("Name", 0), TargetExpr("Starred", 0) } \cup
    { TargetExpr(k, n) : k \in {"Tuple", "List"}, n \in 0..MaxElts }

\* Keys of a dict literal: Option<Expr>; None is a `**other` entry.
KeyExpr(kind, n) == [kind |-> kind, elts |-> n]

Keys ==
    { KeyExpr("None", 0), KeyExpr("Other", 0) } \cup
    { KeyExpr("Tuple", n) : n \in 0..MaxElts }

RECURSIVE SeqsUpTo(_, _)
SeqsUpTo(S, n) ==
    IF n = 0 THEN { << >> }
    ELSE LET shorter == SeqsUpTo(S, n - 1)
         IN  shorter \cup { Append(s, x) : s \in { t \in shorter : Len(t) = n - 1 }, x \in S }

ValueExpr(kind, keys) == [kind |-> kind, keys |-> keys]

NoValue == ValueExpr("None", << >>)

DictExprs == { ValueExpr("Dict", ks) : ks \in SeqsUpTo(Keys, MaxKeys) }

Values == DictExprs \cup { ValueExpr(k, << >>) : k \in {"Call", "DictComp", "BinOp"} }

Statement(kind, value) == [kind |-> kind, value |-> value]

NoStatement == Statement("None", NoValue)

Statements ==
    { NoStatement, Statement("FunctionDef", NoValue), Statement("AnnAssign", NoValue) } \cup
    { Statement(k, v) : k \in {"Assign", "AnnAssign"}, v \in Values }

----------------------------------------------------------------------------
(* Semantic model *)

\* What the semantic model answers for one identifier:
\*   only       only_binding(name) is Some
\*   is_dict    typing::is_dict(binding, semantic)
\*   statement  binding.statement(semantic)
Binding(only, isDict, statement) ==
    [only |-> only, is_dict |-> isDict, statement |-> statement]

NoBinding == Binding(FALSE, FALSE, NoStatement)

Bindings ==
    { NoBinding } \cup { Binding(TRUE, t, s) : t \in BOOLEAN, s \in Statements }

only_binding(sem, id) == IF id \in DOMAIN sem THEN sem[id] ELSE NoBinding

----------------------------------------------------------------------------
(* Diagnostics *)

NoFix == [applicability |-> "None", edits |-> << >>]

\* A diagnostic some other rule pushed before this rule ran.
OtherDiagnostic ==
    [kind |-> "Other", range |-> TextRange(0, 1), fix |-> NoFix]

ItemsSuffix == <<".", "i", "t", "e", "m", "s", "(", ")">>

range_replacement(content, range) == [content |-> content, range |-> range]

unsafe_edit(edit) == [applicability |-> "Unsafe", edits |-> <<edit>>]

safe_edit(edit) == [applicability |-> "Safe", edits |-> <<edit>>]

FixContent_NameOnly(id) == id

\* format!("{}.items()", name.id)
FixContent(id) == id \o ItemsSuffix

NewDiagnostic(iter, id) ==
    [ kind  |-> "DictIterMissingItems",
      range |-> iter.range,
      fix   |-> safe_edit(range_replacement(FixContent(id), iter.range)) ]

Push_Front(diags, d) == <<d>> \o diags

Push(diags, d) == Append(diags, d)

----------------------------------------------------------------------------
(* The rule *)

IsTupleOfTwoOrMore(target) == target.kind = "Tuple" /\ target.elts >= 2

\* let Expr::Tuple(ExprTuple { elts, .. }) = target else return; if elts.len() != 2 return
IsTupleOfTwo(target) == target.kind = "Tuple" /\ target.elts = 2

as_name_expr_LooksThrough(iter) ==
    IF iter.kind = "Name"
    THEN [some |-> TRUE, id |-> iter.id]
    ELSE IF iter.kind \in {"Attribute", "Call"}
    THEN [some |-> TRUE, id |-> iter.base]
    ELSE [some |-> FALSE, id |-> << >>]

\* iter.as_name_expr()
as_name_expr(iter) ==
    IF iter.kind = "Name"
    THEN [some |-> TRUE, id |-> iter.id]
    ELSE [some |-> FALSE, id |-> << >>]

KeyIsTupleOfTwo_NoneOk(key) ==
    IF key.kind = "None" THEN TRUE
    ELSE IF key.kind = "Tuple" THEN key.elts = 2
    ELSE FALSE

\* elt.as_ref().is_some_and(|x| x.as_tuple_expr() with 2 elts)
KeyIsTupleOfTwo(key) ==
    IF key.kind = "None" THEN FALSE
    ELSE IF key.kind = "Tuple" THEN key.elts = 2
    ELSE FALSE

AllKeys_Any(keys) == \E i \in 1..Len(keys) : KeyIsTupleOfTwo(keys[i])

\* dict_expr.keys.iter().all(..)
AllKeys(keys) == \A i \in 1..Len(keys) : KeyIsTupleOfTwo(keys[i])

\* statement.as_assign_stmt()
as_assign_stmt(statement) == statement.kind = "Assign"

\* "If we can reliably determine that a dictionary has keys that are tuples of two"
TupleKeyed(statement) ==
    IF statement.kind = "None" THEN FALSE
    ELSE IF ~as_assign_stmt(statement) THEN FALSE
    ELSE IF statement.value.kind # "Dict" THEN FALSE
    ELSE AllKeys(statement.value.keys)

IsDictBinding_Unchecked(binding) == binding.only

\* only_binding(name) is Some and is_dict(binding) holds
IsDictBinding(binding) == binding.only /\ binding.is_dict

dict_iter_missing_items_OncePerName(diags, sem, target, iter) ==
    IF ~IsTupleOfTwo(target) THEN diags
    ELSE LET name == as_name_expr(iter) IN
         IF ~name.some THEN diags
         ELSE LET binding == only_binding(sem, name.id) IN
              IF ~IsDictBinding(binding) THEN diags
              ELSE IF TupleKeyed(binding.statement) THEN diags
              ELSE IF \E i \in 1..Len(diags) :
                        diags[i].fix.edits # << >>
                        /\ diags[i].fix.edits[1].content = FixContent(name.id)
                   THEN diags
              ELSE Push(diags, NewDiagnostic(iter, name.id))

\* The sink after dict_iter_missing_items(checker, target, iter), given the sink before.
dict_iter_missing_items(diags, sem, target, iter) ==
    IF ~IsTupleOfTwo(target) THEN diags
    ELSE LET name == as_name_expr(iter) IN
         IF ~name.some THEN diags
         ELSE LET binding == only_binding(sem, name.id) IN
              IF ~IsDictBinding(binding) THEN diags
              ELSE IF TupleKeyed(binding.statement) THEN diags
              ELSE Push(diags, NewDiagnostic(iter, name.id))

----------------------------------------------------------------------------
(* Fix application (the fixer replaces edit.range of the source by edit.content) *)

ApplyEdit(text, base, edit) ==
    SubSeq(text, 1, edit.range.start - base)
        \o edit.content
        \o SubSeq(text, edit.range.end - base + 1, Len(text))

----------------------------------------------------------------------------
(* State machine *)

Slots == 1..MaxLoops

SlotStart(slot) == slot * 16

Loop(slot, target, text) == [slot |-> slot, target |-> target, text |-> text]

NoCall ==
    [ slot |-> 0, target |-> TargetExpr("Name", 0), text |-> << >>,
      iter |-> ParseExpr(<< >>, 0), before |-> << >> ]

PriorSinks == { << >>, <<OtherDiagnostic>> }

\* Programs that bind at most one of the names.
SingleBindingModels ==
    { [m \in Names |-> IF m = n THEN b ELSE NoBinding] : n \in Names, b \in Bindings }

Init ==
    /\ semantic \in SingleBindingModels
    /\ diagnostics \in PriorSinks
    /\ visited = {}
    /\ call = NoCall
    /\ pass = 1

\* The checker reaches the `for target in text:` loop at `slot` and runs the rule.
Invoke(slot, target, text) ==
    /\ pass = 1
    /\ \A l \in visited : l.slot # slot
    /\ LET iter == ParseExpr(text, SlotStart(slot)) IN
        /\ diagnostics' = dict_iter_missing_items(diagnostics, semantic, target, iter)
        /\ call' = [ slot |-> slot, target |-> target, text |-> text,
                     iter |-> iter, before |-> diagnostics ]
    /\ visited' = visited \cup { Loop(slot, target, text) }
    /\ UNCHANGED <<semantic, pass>>

\* The fixer applies the fix of the diagnostic just emitted and the rewritten
\* loop is linted again, by a fresh checker.
FixAndRelint ==
    /\ pass = 1
    /\ call # NoCall
    /\ Len(diagnostics) > Len(call.before)
    /\ LET d == diagnostics[Len(diagnostics)]
           text == ApplyEdit(call.text, SlotStart(call.slot), d.fix.edits[1])
           iter == ParseExpr(text, SlotStart(call.slot))
       IN  /\ diagnostics' = dict_iter_missing_items(<< >>, semantic, call.target, iter)
           /\ call' = [call EXCEPT !.text = text, !.iter = iter, !.before = << >>]
           /\ visited' = { Loop(call.slot, call.target, text) }
    /\ pass' = 2
    /\ UNCHANGED semantic

InvokeOnce ==
    /\ visited = {}
    /\ \E slot \in Slots, target \in Targets, text \in IterTexts : Invoke(slot, target, text)

Next == InvokeOnce \/ FixAndRelint

Spec == Init /\ [][Next]_vars

----------------------------------------------------------------------------
(* A file with several loops, visited in any order *)

ScenarioBindings ==
    { NoBinding,
      \* data = {"Paris": 1, "Tokyo": 2}
      Binding(TRUE, TRUE, Statement("Assign",
          ValueExpr("Dict", <<KeyExpr("Other", 0), KeyExpr("Other", 0)>>))),
      \* data = {("a", "b"): 1, ("c", "d"): 2}
      Binding(TRUE, TRUE, Statement("Assign",
          ValueExpr("Dict", <<KeyExpr("Tuple", 2), KeyExpr("Tuple", 2)>>))),
      \* data: dict = {("a", "b"): 1, ("c", "d"): 2}
      Binding(TRUE, TRUE, Statement("AnnAssign",
          ValueExpr("Dict", <<KeyExpr("Tuple", 2), KeyExpr("Tuple", 2)>>))),
      \* data = dict(...)
      Binding(TRUE, TRUE, Statement("Assign", ValueExpr("Call", << >>))),
      \* data = compute(), not known to be a dict
      Binding(TRUE, FALSE, Statement("Assign", ValueExpr("Call", << >>))) }

OrderTargets == { TargetExpr("Tuple", 2), TargetExpr("Tuple", MaxElts), TargetExpr("Name", 0) }

OrderTexts == Names \cup { <<"f", "(", ")">> }

InitOrder ==
    /\ semantic \in [Names -> ScenarioBindings]
    /\ diagnostics \in PriorSinks
    /\ visited = {}
    /\ call = NoCall
    /\ pass = 1

InvokeAny ==
    \E slot \in Slots, target \in OrderTargets, text \in OrderTexts : Invoke(slot, target, text)

NextOrder == InvokeAny

SpecOrder == InitOrder /\ [][NextOrder]_vars

----------------------------------------------------------------------------
(* What the claims speak about, stated on the latest invocation *)

Invoked == call # NoCall

Emitted == diagnostics # call.before

TargetIsPair == call.target.kind = "Tuple" /\ call.target.elts = 2

IterIsName == call.iter.kind = "Name"

IterBinding == semantic[call.iter.id]

Resolved == IterIsName /\ IterBinding.only

MappingTyped == Resolved /\ IterBinding.is_dict

Origin == IterBinding.statement

\* the name is bound, by a plain or an annotated assignment, to a mapping literal
FromLiteral ==
    /\ MappingTyped
    /\ Origin.kind \in {"Assign", "AnnAssign"}
    /\ Origin.value.kind = "Dict"

PairKey(key) == key.kind = "Tuple" /\ key.elts = 2

AllPairKeys(keys) == \A i \in 1..Len(keys) : PairKey(keys[i])

ItemsCall(id) == id \o <<".", "i", "t", "e", "m", "s", "(", ")">>

ExpectedDiagnostic ==
    [ kind  |-> "DictIterMissingItems",
      range |-> call.iter.range,
      fix   |-> [ applicability |-> "Safe",
                  edits |-> << [ content |-> ItemsCall(call.iter.id),
                                 range   |-> call.iter.range ] >> ] ]

RuleDiagnostics(diags) ==
    { diags[i] : i \in { j \in 1..Len(diags) : diags[j].kind = "DictIterMissingItems" } }

----------------------------------------------------------------------------
(* Claims *)

\* C1: a two-element tuple target over a name whose only binding is judged a
\* dict and comes from a mapping literal whose keys are not all two-element
\* tuples gets exactly one diagnostic, at the iterable's range, with a safe
\* single-edit fix replacing that range by `<name>.items()`.
C1_LiteralWithOtherKeysFlagged ==
    (Invoked /\ TargetIsPair /\ FromLiteral /\ ~AllPairKeys(Origin.value.keys))
        => diagnostics = Append(call.before, ExpectedDiagnostic)

C1_Witness ==
    /\ Invoked /\ TargetIsPair /\ FromLiteral
    /\ Origin.value.keys = <<KeyExpr("Other", 0), KeyExpr("Other", 0)>>
    /\ call.iter.id = <<"e", "f">>
    /\ Len(diagnostics) = Len(call.before) + 1

\* C2: a loop over a name bound, by any form of assignment, to a mapping
\* literal whose keys are all two-element tuples gets no diagnostic.
C2_AllPairKeysNeverFlagged ==
    (Invoked /\ FromLiteral /\ AllPairKeys(Origin.value.keys)) => ~Emitted

\* C3: no diagnostic unless the target is a tuple of exactly two elements.
C3_OtherTargetsNotFlagged ==
    (Invoked /\ ~TargetIsPair) => ~Emitted

C3_Witness ==
    /\ Invoked /\ call.target = TargetExpr("Tuple", 3)
    /\ MappingTyped /\ Origin.kind = "FunctionDef"
    /\ ~Emitted

\* C4: no diagnostic when the iterable is not a bare identifier.
C4_NonNameIterableNotFlagged ==
    (Invoked /\ ~IterIsName) => ~Emitted

C4_Witness ==
    /\ Invoked /\ TargetIsPair /\ call.iter.kind = "Attribute"
    /\ semantic[call.iter.base].is_dict
    /\ semantic[call.iter.base].statement.kind = "FunctionDef"
    /\ ~Emitted

\* C5: a diagnostic is emitted only for a name that resolves to exactly one
\* binding which is judged a dict.
C5_UnresolvedOrNotDictNotFlagged ==
    (Invoked /\ IterIsName /\ ~MappingTyped) => ~Emitted

C5_Witness ==
    /\ Invoked /\ TargetIsPair /\ IterIsName
    /\ \/ ~Resolved
       \/ Resolved /\ ~IterBinding.is_dict /\ Origin.kind = "Assign" /\ Origin.value.kind = "Call"
    /\ ~Emitted

\* C6: after the fix is applied, linting the rewritten loop emits nothing.
C6_FixIsIdempotent ==
    pass = 2 => (RuleDiagnostics(diagnostics) = {} /\ call.iter.kind = "Call")

C6_Witness ==
    /\ pass = 2
    /\ call.text = <<"d", ".", "i", "t", "e", "m", "s", "(", ")">>

\* C7: an invocation only appends to the sink, at most one diagnostic, nothing
\* when it declines at a guard, and leaves the semantic model alone.
C7_SinkAppendOnly ==
    [][ /\ Len(diagnostics') \in { Len(diagnostics), Len(diagnostics) + 1 }
        /\ SubSeq(diagnostics', 1, Len(diagnostics)) = diagnostics
        /\ semantic' = semantic
        /\ (~(TargetIsPair /\ MappingTyped))' => diagnostics' = diagnostics
        /\ (MappingTyped /\ Origin.kind = "Assign" /\ Origin.value.kind = "Dict"
                /\ AllPairKeys(Origin.value.keys))' => diagnostics' = diagnostics ]_vars

C7_Witness ==
    /\ Cardinality(visited) = 2
    /\ Len(diagnostics) = 3
    /\ diagnostics[1] = OtherDiagnostic
    /\ diagnostics[2].range.start > diagnostics[3].range.start

\* C8: what is emitted for a loop depends on that loop and the semantic model
\* only: in every order of invocation the rule's diagnostics in the sink are
\* the union of what each loop yields on its own.
Alone(l) ==
    RuleDiagnostics(
        dict_iter_missing_items(<< >>, semantic, l.target, ParseExpr(l.text, SlotStart(l.slot))))

C8_OrderIndependent ==
    /\ RuleDiagnostics(diagnostics) = UNION { Alone(l) : l \in visited }
    /\ Len(diagnostics) = Cardinality(RuleDiagnostics(diagnostics))
                            + (IF diagnostics # << >> /\ diagnostics[1] = OtherDiagnostic THEN 1 ELSE 0)

C8_Witness ==
    /\ Cardinality(visited) = 2
    /\ Cardinality(RuleDiagnostics(diagnostics)) = 1
    /\ Len(call.before) = 2

\* C9: past the first four guards, the diagnostic is emitted whenever the
\* binding has no statement, the statement is not an assignment, the assigned
\* value is not a mapping literal, or some key is a `**` entry, not a tuple, or
\* a tuple of another arity than two.
C9_Inconclusive ==
    \/ Origin.kind = "None"
    \/ Origin.kind \notin {"None", "Assign", "AnnAssign"}
    \/ Origin.kind \in {"Assign", "AnnAssign"} /\ Origin.value.kind # "Dict"
    \/ /\ Origin.kind \in {"Assign", "AnnAssign"}
       /\ Origin.value.kind = "Dict"
       /\ \E i \in 1..Len(Origin.value.keys) :
            LET key == Origin.value.keys[i] IN
                \/ key.kind = "None"
                \/ key.kind # "Tuple"
                \/ key.kind = "Tuple" /\ key.elts # 2

C9_InconclusiveHeuristicFlags ==
    (Invoked /\ TargetIsPair /\ MappingTyped /\ C9_Inconclusive)
        => diagnostics = Append(call.before, ExpectedDiagnostic)

C9_Witness ==
    /\ Invoked /\ TargetIsPair /\ MappingTyped
    /\ Origin.kind = "Assign" /\ Origin.value.kind = "Dict"
    /\ Origin.value.keys = <<KeyExpr("Tuple", 2), KeyExpr("None", 0)>>
    /\ Emitted

====
